---- MODULE Spec2Model ----
\* A model of src/src/enhanced-detector.js: the text preprocessing and
\* statistics, the weighted combination of the two remote scores, the
\* single-text pipeline analyzeTextWithEnhancedOpenAI, the batch orchestrator
\* analyzeBatchWithEnhancedOpenAI and the credential validator validateOpenAIKey;
\* and of the key field of the component AITextDetector in src/unnamed/part_000.
\*
\* JavaScript runs one task at a time: a step of the model is one task (a
\* call from outside, the arrival of a remote response, the firing of a timer)
\* together with every promise continuation that it makes runnable.
EXTENDS Integers, Sequences, FiniteSets, TLC

VARIABLES
  texts,            \* the argument texts of the running call (names of TextChars)
  apiKey,           \* the argument apiKey of the running call
  pc,               \* where analyzeBatchWithEnhancedOpenAI stands
  loopI,            \* the loop variable i of analyzeBatchWithEnhancedOpenAI
  results,          \* the array results of analyzeBatchWithEnhancedOpenAI
  pipe,             \* per input, the run of analyzeTextWithEnhancedOpenAI on it
  calls,            \* remote calls issued and not yet returned or failed
  issued,           \* per input and kind, how many remote calls have been issued
  pauses,           \* the delays of the pacing timers armed so far
  started,          \* per input, how many times analyzeTextWithEnhancedOpenAI was called on it
  embeddingResult,  \* first argument of combineAnalysisResults
  completionResult, \* second argument of combineAnalysisResults
  combined,         \* what combineAnalysisResults returned
  vKey,             \* the argument of validateOpenAIKey
  vpc,              \* where validateOpenAIKey stands
  vResult,          \* what validateOpenAIKey returned
  vListing,         \* how its model-listing call ended: the kind of response.data, or "failed"
  listCalls,        \* how many model-listing calls validateOpenAIKey has issued
  rawText,          \* the argument of preprocessText and of calculateEnhancedTextStats
  processed,        \* what preprocessText returned, as [value |-> the string], Null before
  statsOut,         \* what calculateEnhancedTextStats returned
  uiApiKey,         \* the component's state apiKey
  apiKeyValid,      \* the component's state apiKeyValid
  apiKeyValidating, \* the component's state apiKeyValidating
  debounce,         \* the pending timer of the key effect: the apiKey of its render, or Null
  validations,      \* the calls of validateOpenAIKey in flight: their arguments, oldest first
  validated,        \* the keys for which validateOpenAIKey has returned true
  isAnalyzing,      \* the component's state isAnalyzing
  pipelineKeys,     \* the keys that analyzeText has passed to the pipeline
  analysisProgress, \* the component's state analysisProgress
  progressTimers,   \* the intervals set by analyzeText and not cleared, by id
  progressInterval  \* the const progressInterval of the running analyzeText, 0 when it has none

batchVars == <<texts, apiKey, pc, loopI, results, pipe, calls, issued, pauses, started>>
combineVars == <<embeddingResult, completionResult, combined>>
validateVars == <<vKey, vpc, vResult, vListing, listCalls>>
textVars == <<rawText, processed, statsOut>>
uiVars == <<uiApiKey, apiKeyValid, apiKeyValidating, debounce, validations, validated,
            isAnalyzing, pipelineKeys, analysisProgress, progressTimers, progressInterval>>
vars == <<batchVars, combineVars, validateVars, textVars, uiVars>>
progressVars == <<analysisProgress, progressTimers, progressInterval>>
\* what a step of one part leaves alone
beyondBatch == <<combineVars, validateVars, textVars, uiVars>>
beyondCombine == <<batchVars, validateVars, textVars, uiVars>>
beyondValidate == <<batchVars, combineVars, textVars, uiVars>>
beyondText == <<batchVars, combineVars, validateVars, uiVars>>
beyondUi == <<batchVars, combineVars, validateVars, textVars>>


\* ---------------------------------------------------------------------------
\* Bounds
\* ---------------------------------------------------------------------------
\* longest input list given to analyzeBatchWithEnhancedOpenAI
MaxTexts == 5
\* longest input list of short and blank texts only
MaxShortTexts == 7
\* longest credential given to validateOpenAIKey
MaxKeyLen == 4
\* longest input list of the runs checked for termination
MaxLiveTexts == 4
\* most validations of the key in flight at once
MaxValidations == 2
\* most intervals of analyzeText alive at once
MaxTimers == 2
\* most pieces of a text given to preprocessText or calculateEnhancedTextStats
MaxTokens == 3

\* ---------------------------------------------------------------------------
\* Text: a string is a sequence of one-character strings.
\* ---------------------------------------------------------------------------
Letters ==
  {"a","b","c","d","e","f","g","h","i","j","k","l","m","n","o","p","q","r","s","t","u","v","w","x","y","z",
   "A","B","C","D","E","F","G","H","I","J","K","L","M","N","O","P","Q","R","S","T","U","V","W","X","Y","Z"}
Digits == {"0","1","2","3","4","5","6","7","8","9"}
\* \w of the regular expressions
WordChars == Letters \cup Digits \cup {"_"}
\* \s of the regular expressions
SpaceChars == {" ", "\t", "\n", "\r"}
\* the punctuation kept by the last replace of preprocessText
KeptPunctuation == {".", ",", "!", "?", ";", ":", "'", "\"", "(", ")", "-"}
\* [\w.-] of the e-mail expression
AddressChars == WordChars \cup {".", "-"}

IsSpace(c) == c \in SpaceChars
IsWord(c) == c \in WordChars

Indices(s) == [i \in 1..Len(s) |-> i]
\* s without the characters at the positions in drop
RemoveAt(s, drop) ==
  LET keep == SelectSeq(Indices(s), LAMBDA i : i \notin drop)
  IN [k \in 1..Len(keep) |-> s[keep[k]]]

\* text.replace(/\s+/g, ' ')
CollapseWhitespace(s) ==
  LET keep == SelectSeq(Indices(s), LAMBDA i : ~IsSpace(s[i]) \/ i = 1 \/ ~IsSpace(s[i - 1]))
  IN [k \in 1..Len(keep) |-> IF IsSpace(s[keep[k]]) THEN " " ELSE s[keep[k]]]

\* String.prototype.trim
Trim(s) ==
  IF \A i \in 1..Len(s) : IsSpace(s[i]) THEN <<>>
  ELSE SubSeq(s, CHOOSE i \in 1..Len(s) : ~IsSpace(s[i]) /\ \A j \in 1..(i - 1) : IsSpace(s[j]),
                 CHOOSE i \in 1..Len(s) : ~IsSpace(s[i]) /\ \A j \in (i + 1)..Len(s) : IsSpace(s[j]))

HasPrefixAt(s, i, p) == i + Len(p) - 1 <= Len(s) /\ \A k \in 1..Len(p) : s[i + k - 1] = p[k]

\* /https?:\/\/\S+/ matches at position i
UrlAt(s, i) ==
  \/ HasPrefixAt(s, i, <<"h","t","t","p",":","/","/">>) /\ i + 7 <= Len(s) /\ ~IsSpace(s[i + 7])
  \/ HasPrefixAt(s, i, <<"h","t","t","p","s",":","/","/">>) /\ i + 8 <= Len(s) /\ ~IsSpace(s[i + 8])

\* processed.replace(/https?:\/\/\S+/g, ''): a match runs to the next whitespace
RemoveUrls(s) ==
  LET starts == {i \in 1..Len(s) : s[i] = "h" /\ UrlAt(s, i)}
  IN RemoveAt(s, {j \in 1..Len(s) : \E i \in starts : i <= j /\ \A k \in i..j : ~IsSpace(s[k])})

\* the last position of the run of characters of class cls that starts at i (i - 1 when s[i] is not in cls)
RunEnd(s, i, cls) ==
  LET stops == {j \in i..Len(s) : s[j] \notin cls}
  IN IF stops = {} THEN Len(s) ELSE (CHOOSE j \in stops : \A k \in stops : j <= k) - 1

\* the '.' that [\w.-]+\.\w+ settles on for the '@' at position a, 0 when there is none
DomainDot(s, a) ==
  LET dots == {d \in (a + 2)..RunEnd(s, a + 1, AddressChars) : s[d] = "." /\ d + 1 <= Len(s) /\ IsWord(s[d + 1])}
  IN IF dots = {} THEN 0 ELSE CHOOSE d \in dots : \A e \in dots : e <= d

\* the first match of /[\w.-]+@[\w.-]+\.\w+/ at or after position from, as <<first, last>>, <<0, 0>> when there is none
FirstEmail(s, from) ==
  LET ats == {a \in (from + 1)..Len(s) : s[a] = "@" /\ s[a - 1] \in AddressChars /\ DomainDot(s, a) # 0}
  IN IF ats = {} THEN <<0, 0>>
     ELSE LET a == CHOOSE x \in ats : \A y \in ats : x <= y
              before == {l \in from..(a - 1) : \A k \in l..(a - 1) : s[k] \in AddressChars}
          IN << CHOOSE l \in before : \A m \in before : l <= m,
                RunEnd(s, DomainDot(s, a) + 1, WordChars) >>

RECURSIVE EmailPositions(_, _)
EmailPositions(s, from) ==
  LET m == FirstEmail(s, from)
  IN IF m[1] = 0 THEN {} ELSE (m[1]..m[2]) \cup EmailPositions(s, m[2] + 1)

\* processed.replace(/[\w.-]+@[\w.-]+\.\w+/g, '')
RemoveEmails(s) == RemoveAt(s, EmailPositions(s, 1))

\* processed.replace(/[^\w\s.,!?;:'"()\-]/g, '')
RemoveSpecial(s) == SelectSeq(s, LAMBDA c : c \in WordChars \cup SpaceChars \cup KeptPunctuation)

preprocessText(text) ==
  IF text = <<>> THEN <<>>
  ELSE RemoveSpecial(RemoveEmails(RemoveUrls(Trim(CollapseWhitespace(text)))))

\* text.split(' ').filter(word => word.length > 0).length
WordCount(s) == Cardinality({i \in 1..Len(s) : s[i] # " " /\ (i = 1 \/ s[i - 1] = " ")})

\* n one-letter words separated by single spaces
Words(n) == [k \in 1..(2 * n - 1) |-> IF k % 2 = 1 THEN "a" ELSE " "]

\* The texts the calls are given. A text is named in the state and spelled out
\* here; the empty name is the empty string.
TextNames ==
  {"", "  ", "I a.", "# #", "rich", "w99", "w100", "w100+url", "w100+#", "w100+spaces", "w101"}
\* n different two-letter words, a space before each
DistinctWords(n) ==
  [k \in 1..(3 * n) |->
     LET w == (k + 2) \div 3
     IN IF k % 3 = 1 THEN " "
        ELSE IF k % 3 = 2 THEN (IF w <= 26 THEN "x" ELSE "z")
        ELSE <<"a","b","c","d","e","f","g","h","i","j","k","l","m",
               "n","o","p","q","r","s","t","u","v","w","x","y","z">>[((w - 1) % 26) + 1]]
TextChars(t) ==
  CASE t = "" -> <<>>
    [] t = "  " -> <<" ", " ">>
    [] t = "I a." -> <<"I", " ", "a", ".">>
    [] t = "# #" -> <<"#", " ", "#">>
    [] t = "rich" -> <<"I", " ", "m", "e", " ", "m", "y", " ", "w", "e", " ", "u", "s", " ",
                       "h", "t", "t", "p", ":", "/", "/", "x">> \o DistinctWords(45)
    [] t = "w99" -> Words(99)
    [] t = "w100" -> Words(100)
    [] t = "w100+url" -> Words(99) \o <<" ", "h", "t", "t", "p", ":", "/", "/", "x">>
    [] t = "w100+#" -> Words(99) \o <<" ", "#">>
    [] t = "w100+spaces" -> <<" ", "\t">> \o Words(50) \o <<" ", "\n", " ">> \o Words(50) \o <<" ">>
    [] t = "w101" -> Words(101)

\* text.trim() of analyzeBatchWithEnhancedOpenAI is truthy
nonBlank == [t \in TextNames |-> Trim(TextChars(t)) # <<>>]
NonBlank(t) == nonBlank[t]

\* ---------------------------------------------------------------------------
\* IEEE-754 binary64 arithmetic on non-negative numbers below 2^13. A number
\* is NumLimbs limbs of LimbBits bits, least significant first, in units of
\* 2^-(FracLimbs*LimbBits); a double is such a number with at most
\* MantissaBits significant bits.
\* ---------------------------------------------------------------------------
LimbBits == 20
NumLimbs == 4
FracLimbs == 3
MantissaBits == 53
LimbBase == 2 ^ LimbBits

RECURSIVE Carry(_, _, _)
\* the limbs of the number whose k-th limb is raw[k], where raw[k] may exceed the base
Carry(raw, k, c) ==
  IF k > NumLimbs THEN <<>>
  ELSE <<(raw[k] + c) % LimbBase>> \o Carry(raw, k + 1, (raw[k] + c) \div LimbBase)

BigAdd(a, b) == Carry([k \in 1..NumLimbs |-> a[k] + b[k]], 1, 0)
BigMulNat(n, a) == Carry([k \in 1..NumLimbs |-> n * a[k]], 1, 0)

BitLen(x) == IF x = 0 THEN 0 ELSE CHOOSE k \in 1..LimbBits : 2 ^ (k - 1) <= x /\ x < 2 ^ k
TopLimb(a) ==
  IF \A k \in 1..NumLimbs : a[k] = 0 THEN 0
  ELSE CHOOSE t \in 1..NumLimbs : a[t] # 0 /\ \A j \in (t + 1)..NumLimbs : a[j] = 0
BitLength(a) == IF TopLimb(a) = 0 THEN 0 ELSE LimbBits * (TopLimb(a) - 1) + BitLen(a[TopLimb(a)])

\* round to nearest, ties to even, on MantissaBits significant bits
RoundToDouble(a) ==
  LET drop == BitLength(a) - MantissaBits
  IN IF drop <= 0 THEN a
     ELSE LET unit == 2 ^ drop
              low == a[1] % unit
              keptOdd == IF drop < LimbBits THEN (a[1] \div unit) % 2 = 1 ELSE a[2] % 2 = 1
              up == 2 * low > unit \/ (2 * low = unit /\ keptOdd)
          IN Carry([k \in 1..NumLimbs |->
                      IF k = 1 THEN a[1] - low + (IF up THEN unit ELSE 0) ELSE a[k]], 1, 0)

RECURSIVE FractionLimbs(_, _, _)
\* the first k limbs of the binary expansion of r/den (r < den), the lowest
\* bit set when digits remain beyond them
FractionLimbs(r, den, k) ==
  IF k = 0 THEN <<>>
  ELSE LET d == (r * LimbBase) \div den
           r2 == (r * LimbBase) % den
       IN IF k = 1 THEN << IF r2 # 0 /\ d % 2 = 0 THEN d + 1 ELSE d >>
          ELSE FractionLimbs(r2, den, k - 1) \o <<d>>

\* the double a decimal literal num/den < 1 denotes
DoubleOfFraction(num, den) ==
  RoundToDouble(FractionLimbs(num, den, FracLimbs) \o [k \in 1..(NumLimbs - FracLimbs) |-> 0])
\* n * d and a + b in double arithmetic, n a small natural number
DblMulNat(n, d) == RoundToDouble(BigMulNat(n, d))
DblAdd(a, b) == RoundToDouble(BigAdd(a, b))
\* Math.round
MathRound(d) == d[FracLimbs + 1] + (IF 2 * d[FracLimbs] >= LimbBase THEN 1 ELSE 0)

\* ---------------------------------------------------------------------------
\* combineAnalysisResults
\* ---------------------------------------------------------------------------
embeddingWeight == DoubleOfFraction(3, 10)
completionWeight == DoubleOfFraction(7, 10)

\* Math.round((e * embeddingWeight) + (c * completionWeight))
Weighted(e, c) ==
  MathRound(DblAdd(DblMulNat(e, embeddingWeight), DblMulNat(c, completionWeight)))

\* a field that a record lacks reads as undefined
Undefined == "undefined"
Read(r, f) == IF f \in DOMAIN r THEN r[f] ELSE Undefined

\* [...embeddingResult.factors, ...completionResult.factors] throws a
\* TypeError when factors is undefined
CombineThrows(embedding, completion) ==
  "factors" \notin DOMAIN embedding \/ "factors" \notin DOMAIN completion

\* A text that a template builds is the sequence of its parts.
combineAnalysisResults(embedding, completion) ==
  LET weightedAiProbability == Weighted(embedding.aiProbability, completion.aiProbability)
      weightedConfidence == Weighted(embedding.confidence, completion.confidence)
  IN [aiProbability |-> weightedAiProbability,
      confidence |-> weightedConfidence,
      factors |-> embedding.factors \o completion.factors,
      likelySource |-> IF weightedAiProbability > 60 THEN "ai" ELSE "human",
      reasoning |-> <<"Combined analysis: ", Read(completion, "reasoning"),
                      " Additionally, embedding similarity analysis suggests a ",
                      embedding.aiProbability, "% probability of AI generation.">>,
      model |-> "hybrid-approach"]

\* ---------------------------------------------------------------------------
\* performEmbeddingAnalysis and cosineSimilarity. Vector components are kept
\* in tenths, similarities in units of 1/SimScale.
\* ---------------------------------------------------------------------------
EmbeddingDim == 1536
SimScale == 1000
SqrtScale == 100

RECURSIVE SumOver(_, _, _)
\* f[lo] + ... + f[hi]
SumOver(f, lo, hi) ==
  IF lo > hi THEN 0
  ELSE IF lo = hi THEN f[lo]
  ELSE SumOver(f, lo, (lo + hi) \div 2) + SumOver(f, (lo + hi) \div 2 + 1, hi)

RECURSIVE SqrtBetween(_, _, _)
\* the largest r in lo..hi with r * r <= x
SqrtBetween(x, lo, hi) ==
  IF lo >= hi THEN lo
  ELSE LET mid == (lo + hi + 1) \div 2
       IN IF mid * mid <= x THEN SqrtBetween(x, mid, hi) ELSE SqrtBetween(x, lo, mid - 1)
\* SqrtScale * Math.sqrt(x)
ScaledSqrt(x) == SqrtBetween(x * SqrtScale * SqrtScale, 0, 46340)

cosineSimilarity(vec1, vec2) ==
  IF Len(vec1) # Len(vec2) THEN 0
  ELSE LET dotProduct == SumOver([k \in 1..Len(vec1) |-> vec1[k] * vec2[k]], 1, Len(vec1))
           norm1 == ScaledSqrt(SumOver([k \in 1..Len(vec1) |-> vec1[k] * vec1[k]], 1, Len(vec1)))
           norm2 == ScaledSqrt(SumOver([k \in 1..Len(vec2) |-> vec2[k] * vec2[k]], 1, Len(vec2)))
       IN IF norm1 = 0 \/ norm2 = 0 THEN 0
          ELSE (dotProduct * SqrtScale * SqrtScale) \div ((norm1 * norm2) \div SimScale)

\* Array(1536).fill(0.1) and Array(1536).fill(0.2)
aiPattern == [k \in 1..EmbeddingDim |-> 1]
\* a human pattern that is not a multiple of the AI pattern
humanPatternSkewed == [k \in 1..EmbeddingDim |-> IF k % 2 = 1 THEN 2 ELSE 1]
humanPattern == [k \in 1..EmbeddingDim |-> 2]

\* The embeddings the remote call returns, named in the state and spelled out here.
VectorNames == {"ones", "minus", "zero", "mixed", "short"}
VectorOf(v) ==
  CASE v = "ones" -> [k \in 1..EmbeddingDim |-> 1]
    [] v = "minus" -> [k \in 1..EmbeddingDim |-> -1]
    [] v = "zero" -> [k \in 1..EmbeddingDim |-> 0]
    [] v = "mixed" -> [k \in 1..EmbeddingDim |-> IF k % 2 = 1 THEN 3 ELSE -1]
    [] v = "short" -> <<1, 2, 3>>

\* the record performEmbeddingAnalysis returns for the embedding textEmbedding
EmbeddingScore(textEmbedding) ==
  LET aiSimilarity == cosineSimilarity(textEmbedding, aiPattern)
      humanSimilarity == cosineSimilarity(textEmbedding, humanPattern)
      totalSimilarity == aiSimilarity + humanSimilarity
      aiProbability == IF totalSimilarity > 0
                       THEN (200 * aiSimilarity + totalSimilarity) \div (2 * totalSimilarity)
                       ELSE 50
  IN [aiProbability |-> aiProbability,
      confidence |-> 70,
      model |-> "text-embedding-ada-002",
      factors |-> <<"Embedding similarity analysis">>,
      likelySource |-> IF aiProbability > 60 THEN "ai" ELSE "human",
      reasoning |-> <<"Based on embedding similarity, this text has a ", aiProbability,
                      "% probability of being AI-generated.">>]

embeddingScores == [v \in VectorNames |-> EmbeddingScore(VectorOf(v))]

\* ---------------------------------------------------------------------------
\* Double arithmetic in full: products, quotients and differences. A wide
\* number is 4*NumLimbs digits of HalfBits bits, least significant first, in
\* units of 2^-(2*FracLimbs*LimbBits).
\* ---------------------------------------------------------------------------
Max(a, b) == IF a >= b THEN a ELSE b
Min(a, b) == IF a <= b THEN a ELSE b
HalfBits == 10
HalfBase == 2 ^ HalfBits
WideLen == 4 * NumLimbs
DblZero == [k \in 1..NumLimbs |-> 0]

RECURSIVE CarryHalves(_, _, _)
CarryHalves(raw, k, c) ==
  IF k > Len(raw) THEN <<>>
  ELSE LET digit == raw[k] + c
       IN <<digit % HalfBase>> \o CarryHalves(raw, k + 1, digit \div HalfBase)

RECURSIVE HalvesFrom(_, _)
HalvesFrom(a, k) ==
  IF k > NumLimbs THEN <<>> ELSE <<a[k] % HalfBase, a[k] \div HalfBase>> \o HalvesFrom(a, k + 1)
\* the digits of a double
Halves(a) == HalvesFrom(a, 1)

\* bit i of the wide number h, bit 0 the lowest
Bit(h, i) == (h[i \div HalfBits + 1] \div 2 ^ (i % HalfBits)) % 2
WideBitLength(h) ==
  IF \A k \in 1..Len(h) : h[k] = 0 THEN 0
  ELSE LET t == CHOOSE x \in 1..Len(h) : h[x] # 0 /\ \A j \in (x + 1)..Len(h) : h[j] = 0
       IN HalfBits * (t - 1) + BitLen(h[t])

\* the wide number h rounded to nearest, ties to even, on MantissaBits bits
RoundWide(h) ==
  LET drop == WideBitLength(h) - MantissaBits
  IN IF drop <= 0 THEN h
     ELSE LET up == /\ Bit(h, drop - 1) = 1
                    /\ Bit(h, drop) = 1 \/ \E i \in 0..(drop - 2) : Bit(h, i) = 1
              q == drop \div HalfBits
              unit == 2 ^ (drop % HalfBits)
          IN CarryHalves([k \in 1..Len(h) |->
                            IF k <= q THEN 0
                            ELSE IF k = q + 1 THEN (h[k] \div unit) * unit + (IF up THEN unit ELSE 0)
                            ELSE h[k]], 1, 0)

\* the double that the rounded wide number h is
Narrow(h) ==
  [k \in 1..NumLimbs |->
     h[2 * FracLimbs + 2 * k - 1] + HalfBase * h[2 * FracLimbs + 2 * k]]

\* a * b in double arithmetic
DblMul(a, b) ==
  LET ah == Halves(a)
      bh == Halves(b)
      raw == [k \in 1..WideLen |->
                SumOver([i \in 1..(2 * NumLimbs) |-> ah[i] * bh[k + 1 - i]],
                        Max(1, k - 2 * NumLimbs + 1), Min(k, 2 * NumLimbs))]
  IN Narrow(RoundWide(CarryHalves(raw, 1, 0)))

RECURSIVE FractionHalves(_, _, _)
\* the first k digits of the binary expansion of r/den (r < den), lowest
\* first, the lowest bit set when digits remain beyond them
FractionHalves(r, den, k) ==
  IF k = 0 THEN <<>>
  ELSE LET d == (r * HalfBase) \div den
           r2 == (r * HalfBase) % den
       IN IF k = 1 THEN << IF r2 # 0 /\ d % 2 = 0 THEN d + 1 ELSE d >>
          ELSE FractionHalves(r2, den, k - 1) \o <<d>>

\* num / den in double arithmetic, num and den natural numbers, den > 0
DblDivNat(num, den) ==
  LET whole == num \div den
  IN Narrow(RoundWide(FractionHalves(num % den, den, 4 * FracLimbs)
                      \o <<whole % HalfBase, whole \div HalfBase>>
                      \o [k \in 1..(WideLen - 4 * FracLimbs - 2) |-> 0]))

\* a >= b
DblGeq(a, b) == a = b \/ \E k \in 1..NumLimbs : a[k] > b[k] /\ \A j \in (k + 1)..NumLimbs : a[j] = b[j]
\* a - b in double arithmetic, as a sign and a magnitude
DblSub(a, b) ==
  IF DblGeq(a, b)
  THEN [negative |-> FALSE, magnitude |-> RoundToDouble(Carry([k \in 1..NumLimbs |-> a[k] - b[k]], 1, 0))]
  ELSE [negative |-> TRUE, magnitude |-> RoundToDouble(Carry([k \in 1..NumLimbs |-> b[k] - a[k]], 1, 0))]
\* Math.round of a signed number: halves go up
MathRoundSigned(x) ==
  IF ~x.negative THEN MathRound(x.magnitude)
  ELSE LET d == x.magnitude
           aboveHalf == \/ 2 * d[FracLimbs] > LimbBase
                        \/ 2 * d[FracLimbs] = LimbBase /\ \E k \in 1..(FracLimbs - 1) : d[k] # 0
       IN 0 - (d[FracLimbs + 1] + (IF aboveHalf THEN 1 ELSE 0))

\* ---------------------------------------------------------------------------
\* calculateEnhancedTextStats and countSyllables
\* ---------------------------------------------------------------------------
Uppers == <<"A","B","C","D","E","F","G","H","I","J","K","L","M","N","O","P","Q","R","S","T","U","V","W","X","Y","Z">>
Lowers == <<"a","b","c","d","e","f","g","h","i","j","k","l","m","n","o","p","q","r","s","t","u","v","w","x","y","z">>
ToLower(c) ==
  IF \E k \in 1..26 : Uppers[k] = c THEN Lowers[CHOOSE k \in 1..26 : Uppers[k] = c] ELSE c
toLowerCase(s) == [i \in 1..Len(s) |-> ToLower(s[i])]

\* text.split(' '): where the non-empty parts start, where the part at i ends,
\* and whether some part is empty
PartStarts(s) == {i \in 1..Len(s) : s[i] # " " /\ (i = 1 \/ s[i - 1] = " ")}
PartEnd(s, i) ==
  LET stops == {j \in i..Len(s) : s[j] = " "}
  IN IF stops = {} THEN Len(s) ELSE (CHOOSE j \in stops : \A k \in stops : j <= k) - 1
PartEnds(s) == {i \in 1..Len(s) : s[i] # " " /\ (i = Len(s) \/ s[i + 1] = " ")}
HasEmptyPart(s) ==
  s[1] = " " \/ s[Len(s)] = " " \/ \E i \in 1..(Len(s) - 1) : s[i] = " " /\ s[i + 1] = " "

\* new Set(text.toLowerCase().split(' ')).size
UniqueWords(s) ==
  LET l == toLowerCase(s)
  IN Cardinality({SubSeq(l, i, PartEnd(l, i)) : i \in PartStarts(l)}) + (IF HasEmptyPart(s) THEN 1 ELSE 0)

\* (text.match(/[.!?]+/g) || []).length
SentenceMarks == {".", "!", "?"}
SentenceRuns(s) ==
  Cardinality({i \in 1..Len(s) : s[i] \in SentenceMarks /\ (i = 1 \/ s[i - 1] \notin SentenceMarks)})

\* (text.match(/\b(I|me|my|mine|myself|we|us|our|ours|ourselves)\b/gi) || []).length
Pronouns ==
  {<<"i">>, <<"m","e">>, <<"m","y">>, <<"m","i","n","e">>, <<"m","y","s","e","l","f">>, <<"w","e">>,
   <<"u","s">>, <<"o","u","r">>, <<"o","u","r","s">>, <<"o","u","r","s","e","l","v","e","s">>}
PronounCount(s) ==
  Cardinality({i \in 1..Len(s) :
                 /\ IsWord(s[i]) /\ (i = 1 \/ ~IsWord(s[i - 1]))
                 /\ toLowerCase(SubSeq(s, i, RunEnd(s, i, WordChars))) \in Pronouns})

Vowels == {"a", "e", "i", "o", "u", "y"}
countSyllables(text) ==
  LET l == toLowerCase(text)
      vowelGroups == {i \in 1..Len(l) : l[i] \in Vowels /\ (i = 1 \/ l[i - 1] \notin Vowels)}
      silentE == {i \in PartEnds(l) : l[i] = "e" /\ ~(i > 1 /\ l[i - 1] = "l")}
      suffix == {i \in PartEnds(l) : i > 1 /\ l[i - 1] = "e" /\ l[i] \in {"s", "d"}}
  IN Max(1, Cardinality(vowelGroups) - Cardinality(silentE) - Cardinality(suffix))

\* A readabilityScore is infinite or a number of tenths; a lexicalDiversity
\* is a number of hundredths; avgWordsPerSentence is a double.
Tenths(n) == [infinite |-> FALSE, tenths |-> n]
Infinity == [infinite |-> TRUE, tenths |-> 0]

\* the literals 0.39, 11.8 and 15.59 of the readability formula
WordsFactor == DblDivNat(39, 100)
SyllablesFactor == DblDivNat(118, 10)
ReadabilityOffset == DblDivNat(1559, 100)

\* Math.round(readabilityScore * 10) for
\* readabilityScore = 0.39 * (words / sentences) + 11.8 * (syllables / words) - 15.59
ReadabilityTenths(words, sentences, syllables) ==
  LET sum == DblAdd(DblMul(WordsFactor, DblDivNat(words, sentences)),
                    DblMul(SyllablesFactor, DblDivNat(syllables, words)))
      readabilityScore == DblSub(sum, ReadabilityOffset)
  IN MathRoundSigned([readabilityScore EXCEPT !.magnitude = DblMulNat(10, @)])

\* Math.round(lexicalDiversity * 100) for lexicalDiversity = uniqueWords / words
DiversityHundredths(uniqueWords, words) == MathRound(DblMulNat(100, DblDivNat(uniqueWords, words)))

calculateEnhancedTextStats(text) ==
  IF text = <<>>
  THEN [words |-> 0, sentences |-> 0, avgWordsPerSentence |-> DblZero, longWords |-> 0,
        personalPronouns |-> 0, readabilityScore |-> Tenths(0), lexicalDiversity |-> 0]
  ELSE LET words == WordCount(text)
           sentences == Max(1, SentenceRuns(text))
       IN [words |-> words,
           sentences |-> sentences,
           avgWordsPerSentence |-> DblDivNat(words, sentences),
           longWords |-> Cardinality({i \in PartStarts(text) : PartEnd(text, i) - i + 1 > 6}),
           personalPronouns |-> PronounCount(text),
           readabilityScore |-> IF words = 0 THEN Infinity
                                ELSE Tenths(ReadabilityTenths(words, sentences, countSyllables(text))),
           lexicalDiversity |-> IF words > 0 THEN DiversityHundredths(UniqueWords(text), words) ELSE 0]

\* ---------------------------------------------------------------------------
\* calculateValidationScore and getEnhancedInterpretation
\* ---------------------------------------------------------------------------
\* the literals 0.4 and 0.2 of the validation score
ConfidenceShare == DblDivNat(4, 10)
OtherShare == DblDivNat(2, 10)

\* calculateValidationScore with a lengthScore that is not capped at 100
calculateValidationScoreUncapped(analysisResult, stats) ==
  LET base == DblMulNat(analysisResult.confidence, ConfidenceShare)
      lengthScore == stats.words * 2
      diversityScore == DblMulNat(100, DblDivNat(stats.lexicalDiversity, 100))
      pronounScore == Min(100, stats.personalPronouns * 20)
      score == DblAdd(DblAdd(DblAdd(base, DblMulNat(lengthScore, OtherShare)),
                             DblMul(diversityScore, OtherShare)),
                      DblMulNat(pronounScore, OtherShare))
  IN MathRound(score)

calculateValidationScore(analysisResult, stats) ==
  LET base == DblMulNat(analysisResult.confidence, ConfidenceShare)
      lengthScore == Min(100, stats.words * 2)
      diversityScore == DblMulNat(100, DblDivNat(stats.lexicalDiversity, 100))
      pronounScore == Min(100, stats.personalPronouns * 20)
      score == DblAdd(DblAdd(DblAdd(base, DblMulNat(lengthScore, OtherShare)),
                             DblMul(diversityScore, OtherShare)),
                      DblMulNat(pronounScore, OtherShare))
  IN MathRound(score)

\* the verdict sentence that getEnhancedInterpretation chooses
Verdict(aiProbability) ==
  IF aiProbability < 30 THEN "This text is likely human-written with natural speech patterns."
  ELSE IF aiProbability < 60
  THEN "This text has mixed indicators that could suggest either human or AI authorship."
  ELSE "This text shows patterns consistent with AI-generated content."

\* the interpretation, as the sequence of its sentences
getEnhancedInterpretation(analysisResult, stats) ==
  << IF stats.words < 15
     THEN "This sample is very short, which typically affects certainty, but our analysis suggests: "
     ELSE "Based on our comprehensive analysis: ",
     Verdict(analysisResult.aiProbability) >>
  \o (IF stats.lexicalDiversity < 50 /\ stats.words > 50
      THEN <<" The low lexical diversity (repetitive vocabulary) is a common indicator of AI-generated text.">>
      ELSE <<>>)
  \o (IF stats.personalPronouns = 0 /\ stats.words > 30
      THEN <<" The absence of personal pronouns is unusual for human writing.">>
      ELSE <<>>)
  \o (IF stats.readabilityScore.infinite \/ stats.readabilityScore.tenths > 120
      THEN <<" The high readability score suggests formal, well-structured writing typical of AI.">>
      ELSE <<>>)

\* textStats of analyzeTextWithEnhancedOpenAI, per text
textStats == [t \in TextNames |-> calculateEnhancedTextStats(preprocessText(TextChars(t)))]

\* ---------------------------------------------------------------------------
\* The contents of the completion responses
\* ---------------------------------------------------------------------------
\* JSON.parse of the completion's content succeeds
Parseable(content) == "malformed" \notin DOMAIN content
Malformed == [malformed |-> TRUE]
\* the content of a completion response: the JSON object it spells
Content(aiProbability, confidence) ==
  [aiProbability |-> aiProbability, confidence |-> confidence, factors |-> <<"tone">>,
   likelySource |-> IF aiProbability > 50 THEN "ai" ELSE "human", reasoning |-> <<"because">>]
\* a content without the fields in missing
Without(content, missing) == [f \in DOMAIN content \ missing |-> content[f]]
\* the responses to the calls of a batch, and to a single call
BatchContents == {Content(80, 90)}
SingleContents ==
  {Content(80, 90), Content(45, 6), Content(0, 0), Content(150, 120), Malformed,
   Content(29, 100), Content(30, 100), Content(59, 50), Content(60, 50), Content(61, 50),
   Without(Content(80, 90), {"factors"}), Without(Content(80, 90), {"reasoning"}),
   Without(Content(80, 90), {"likelySource"}),
   Without(Content(80, 90), {"factors", "likelySource", "reasoning"})}

\* what performCompletionAnalysis returns for a parseable content:
\* { ...analysisResult, model: "gpt-4o" }
CompletionScore(content) ==
  [f \in DOMAIN content \cup {"model"} |-> IF f = "model" THEN "gpt-4o" ELSE content[f]]

\* combineAnalysisResults on the hybrid branch, per embedding result and content
combinedScores ==
  [embedding \in {embeddingScores[v] : v \in VectorNames},
   content \in {x \in BatchContents \cup SingleContents : Parseable(x) /\ "factors" \in DOMAIN x} |->
     combineAnalysisResults(embedding, CompletionScore(content))]

\* the confidences that reach calculateValidationScore
ContentConfidences == {c.confidence : c \in {x \in BatchContents \cup SingleContents : Parseable(x)}}
Confidences ==
  ContentConfidences \cup {Weighted(embeddingScores[v].confidence, c) : v \in VectorNames, c \in ContentConfidences}
\* validationScore of analyzeTextWithEnhancedOpenAI, per text and confidence
validationScores ==
  [t \in TextNames |-> [c \in Confidences |-> calculateValidationScore([confidence |-> c], textStats[t])]]

\* ---------------------------------------------------------------------------
\* analyzeTextWithEnhancedOpenAI: a run is a record
\*   phase            "unstarted", "embedding" or "completion" (suspended at
\*                    the await of that remote call), "resolved", "rejected"
\*   embeddingResult  the local embeddingResult, Null before it is assigned
\*   completionResult what performCompletionAnalysis returned, Null before
\*   value            the promise's value: the result when resolved, the
\*                    error message when rejected
\* An error message is the sequence of its parts, outermost first.
\* ---------------------------------------------------------------------------
Null == [null |-> TRUE]
BatchSize == 3
HybridWords == 100
PauseMs == 1000
Unstarted == [phase |-> "unstarted", embeddingResult |-> Null, completionResult |-> Null, value |-> Null]
Settled(p) == p.phase \in {"resolved", "rejected"}
Rejected(p, message) == [p EXCEPT !.phase = "rejected", !.value = message]
\* the catch of analyzeTextWithEnhancedOpenAI
AnalysisError(message) == <<"Failed to analyze text">> \o message

\* AnalyzeBegin with the length test off by one: words <= 100
AnalyzeBeginOffByOne(t, key) ==
  IF TextChars(t) = <<>> \/ key = <<>>
  THEN Rejected(Unstarted, <<"Text and API key are required">>)
  ELSE IF textStats[t].words <= HybridWords
       THEN [Unstarted EXCEPT !.phase = "completion"]
       ELSE [Unstarted EXCEPT !.phase = "embedding"]

\* the call up to its first await
AnalyzeBegin(t, key) ==
  IF TextChars(t) = <<>> \/ key = <<>>
  THEN Rejected(Unstarted, <<"Text and API key are required">>)
  ELSE IF textStats[t].words < HybridWords
       THEN [Unstarted EXCEPT !.phase = "completion"]
       ELSE [Unstarted EXCEPT !.phase = "embedding"]

\* the embedding call returned the vector v: performEmbeddingAnalysis returns
\* and performCompletionAnalysis issues the completion call
AfterEmbedding(p, v) == [p EXCEPT !.phase = "completion", !.embeddingResult = embeddingScores[v]]
\* the embedding call failed: performEmbeddingAnalysis rethrows
AfterEmbeddingFailure(p, cause) ==
  Rejected(p, AnalysisError(<<"Failed to perform embedding analysis", cause>>))

\* the record analyzeTextWithEnhancedOpenAI returns
AnalysisResult(t, analysisResult) ==
  [aiProbability |-> analysisResult.aiProbability,
   confidence |-> analysisResult.confidence,
   textStats |-> textStats[t],
   interpretation |-> getEnhancedInterpretation(analysisResult, textStats[t]),
   apiDetails |-> [model |-> analysisResult.model,
                   confidenceFactors |-> IF "factors" \in DOMAIN analysisResult
                                         THEN analysisResult.factors ELSE <<>>,
                   reasoning |-> IF "reasoning" \in DOMAIN analysisResult
                                 THEN analysisResult.reasoning ELSE <<>>],
   sourceModel |-> "enhanced-openai",
   validationScore |-> validationScores[t][analysisResult.confidence]]

\* the completion call returned content; embeddingResult is assigned on the
\* hybrid branch alone
AfterCompletion(t, p, content) ==
  IF ~Parseable(content)
  THEN Rejected(p, AnalysisError(<<"Failed to perform completion analysis", "Unexpected token">>))
  ELSE LET completion == CompletionScore(content)
       IN IF p.embeddingResult = Null
          THEN [p EXCEPT !.phase = "resolved", !.completionResult = completion,
                         !.value = AnalysisResult(t, completion)]
          ELSE IF CombineThrows(p.embeddingResult, completion)
          THEN [Rejected(p, AnalysisError(<<"completionResult.factors is not iterable">>))
                  EXCEPT !.completionResult = completion]
          ELSE [p EXCEPT !.phase = "resolved", !.completionResult = completion,
                         !.value = AnalysisResult(t, combinedScores[p.embeddingResult, content])]
\* AfterCompletionFailure without the rethrow: the run stays at its await
AfterCompletionFailureSilent(p, cause) == p

\* AfterCompletionFailure with a retry: the run starts over at the embedding call
AfterCompletionFailureRetry(p, cause) == [p EXCEPT !.phase = "embedding"]

\* the completion call failed: performCompletionAnalysis rethrows
AfterCompletionFailure(p, cause) ==
  Rejected(p, AnalysisError(<<"Failed to perform completion analysis", cause>>))

\* the remote calls that the runs new issue and the runs old had not
Issues(old, new) ==
  {[slot |-> s, kind |-> new[s].phase] :
     s \in {x \in DOMAIN new : new[x].phase \in {"embedding", "completion"} /\ new[x].phase # old[x].phase}}
Count(old, new) ==
  [s \in DOMAIN issued |->
     [k \in {"embedding", "completion"} |->
        issued[s][k] + (IF [slot |-> s, kind |-> k] \in Issues(old, new) THEN 1 ELSE 0)]]

\* ---------------------------------------------------------------------------
\* analyzeBatchWithEnhancedOpenAI
\* ---------------------------------------------------------------------------
\* the sentinel of the catch in the batch's map
FailedItem(t, message) ==
  [text |-> t, error |-> message, aiProbability |-> 50, confidence |-> 10,
   interpretation |-> "Analysis failed"]
\* the then in the batch's map: { text, ...analysis }
AnalyzedItem(t, analysis) ==
  [f \in DOMAIN analysis \cup {"text"} |-> IF f = "text" THEN t ELSE analysis[f]]

\* ItemPromise without the catch: a failed run rejects the item's promise
ItemPromiseNoCatch(t, p) ==
  IF ~NonBlank(t) THEN [state |-> "fulfilled", value |-> Null]
  ELSE IF p.phase = "resolved" THEN [state |-> "fulfilled", value |-> AnalyzedItem(t, p.value)]
  ELSE IF p.phase = "rejected" THEN [state |-> "rejected", value |-> Null]
  ELSE [state |-> "pending", value |-> Null]

\* the promise the batch's map makes for the text t whose run is p
ItemPromise(t, p) ==
  IF ~NonBlank(t) THEN [state |-> "fulfilled", value |-> Null]
  ELSE IF p.phase = "resolved" THEN [state |-> "fulfilled", value |-> AnalyzedItem(t, p.value)]
  ELSE IF p.phase = "rejected" THEN [state |-> "fulfilled", value |-> FailedItem(t, p.value)]
  ELSE [state |-> "pending", value |-> Null]

\* Group with the slice one too long: texts.slice(k, k + batchSize + 1)
GroupOverlapping(k) == {s \in 1..Len(texts) : k < s /\ s <= k + BatchSize + 1}

\* the inputs of the group that starts at loop index k: texts.slice(k, k + batchSize)
Group(k) == {s \in 1..Len(texts) : k < s /\ s <= k + BatchSize}

\* PromiseAll that does not wait: a pending promise counts as fulfilled with null
PromiseAllNoWait(ps, k) ==
  IF \E s \in Group(k) : ps[s].state = "rejected" THEN [state |-> "rejected", value |-> <<>>]
  ELSE [state |-> "fulfilled", value |-> [j \in 1..Cardinality(Group(k)) |-> ps[k + j].value]]

\* Promise.all over the promises ps of the group at k
PromiseAll(ps, k) ==
  IF \E s \in Group(k) : ps[s].state = "rejected" THEN [state |-> "rejected", value |-> <<>>]
  ELSE IF \E s \in Group(k) : ps[s].state = "pending" THEN [state |-> "pending", value |-> <<>>]
  ELSE [state |-> "fulfilled", value |-> [j \in 1..Cardinality(Group(k)) |-> ps[k + j].value]]

\* Pushed with unshift in place of push
PushedInFront(rs, batchResults) == SelectSeq(batchResults, LAMBDA r : r # Null) \o rs

\* results.push(...batchResults.filter(result => result !== null))
Pushed(rs, batchResults) == rs \o SelectSeq(batchResults, LAMBDA r : r # Null)
\* MoreGroups with <= in place of <
MoreGroupsInclusive(k) == k + BatchSize <= Len(texts)

\* i + batchSize < texts.length
MoreGroups(k) == k + BatchSize < Len(texts)

\* the loop body from the await of Promise.all on, the group's runs being newPipe
Resume(newPipe, k) ==
  \E batchResults \in {PromiseAll([s \in Group(k) |-> ItemPromise(texts[s], newPipe[s])], k)} :
     /\ loopI' = k
     /\ IF batchResults.state = "pending"
        THEN pc' = "waiting" /\ UNCHANGED <<results, pauses>>
        ELSE IF batchResults.state = "rejected"
        THEN pc' = "rejected" /\ UNCHANGED <<results, pauses>>
        ELSE /\ results' = Pushed(results, batchResults.value)
             /\ IF MoreGroups(k)
                THEN pc' = "pausing" /\ pauses' = Append(pauses, PauseMs)
                ELSE pc' = "returned" /\ UNCHANGED pauses

\* the loop body up to the await of Promise.all, for the group at k
StartGroup(k) ==
  LET newPipe == [s \in DOMAIN pipe |->
                    IF s \in Group(k) /\ NonBlank(texts[s])
                    THEN AnalyzeBegin(texts[s], apiKey) ELSE pipe[s]]
  IN /\ pipe' = newPipe
     /\ started' = [s \in DOMAIN started |->
                     started[s] + (IF s \in Group(k) /\ NonBlank(texts[s]) THEN 1 ELSE 0)]
     /\ calls' = calls \cup Issues(pipe, newPipe)
     /\ issued' = Count(pipe, newPipe)
     /\ Resume(newPipe, k)

\* the call analyzeBatchWithEnhancedOpenAI(texts, apiKey)
analyzeBatchWithEnhancedOpenAI ==
  /\ pc = "idle"
  /\ IF Len(texts) = 0
     THEN pc' = "returned" /\ UNCHANGED <<loopI, results, pipe, calls, issued, pauses, started>>
     ELSE StartGroup(0)
  /\ UNCHANGED <<texts, apiKey, beyondBatch>>

\* the timer of the pause fires: i += batchSize and the next group started
TimerFires ==
  /\ pc = "pausing"
  /\ StartGroup(loopI + BatchSize)
  /\ UNCHANGED <<texts, apiKey, beyondBatch>>

\* the call analyzeTextWithEnhancedOpenAI(texts[1], apiKey) from outside
analyzeTextWithEnhancedOpenAI ==
  /\ pc = "direct"
  /\ pipe[1].phase = "unstarted"
  /\ LET newPipe == [pipe EXCEPT ![1] = AnalyzeBegin(texts[1], apiKey)]
     IN pipe' = newPipe /\ calls' = calls \cup Issues(pipe, newPipe) /\ issued' = Count(pipe, newPipe)
  /\ started' = [started EXCEPT ![1] = @ + 1]
  /\ UNCHANGED <<texts, apiKey, pc, loopI, results, pauses, beyondBatch>>

\* the remote call c ends and leaves the runs newPipe
CallEnds(c, newPipe) ==
  /\ c \in calls
  /\ \E after \in {newPipe} :
       /\ pipe' = after
       /\ calls' = (calls \ {c}) \cup Issues(pipe, after)
       /\ issued' = Count(pipe, after)
       /\ IF pc = "waiting" THEN Resume(after, loopI) ELSE UNCHANGED <<pc, loopI, results, pauses>>
  /\ UNCHANGED <<texts, apiKey, started, beyondBatch>>

EmbeddingReturns(s, v) ==
  CallEnds([slot |-> s, kind |-> "embedding"], [pipe EXCEPT ![s] = AfterEmbedding(pipe[s], v)])
EmbeddingFails(s) ==
  CallEnds([slot |-> s, kind |-> "embedding"],
           [pipe EXCEPT ![s] = AfterEmbeddingFailure(pipe[s], "remote error")])
CompletionReturns(s, content) ==
  CallEnds([slot |-> s, kind |-> "completion"],
           [pipe EXCEPT ![s] = AfterCompletion(texts[s], pipe[s], content)])
CompletionFails(s) ==
  CallEnds([slot |-> s, kind |-> "completion"],
           [pipe EXCEPT ![s] = AfterCompletionFailure(pipe[s], "remote error")])

\* ---------------------------------------------------------------------------
\* validateOpenAIKey
\* ---------------------------------------------------------------------------
StartsWith(s, p) == Len(p) <= Len(s) /\ SubSeq(s, 1, Len(p)) = p
KeyPrefix == <<"s", "k", "-">>
\* what openai.models.list() resolves to: an object whose data is of this kind
ListingShapes == {"array", "object", "undefined"}
\* ListingValid without Array.isArray: response && response.data
ListingTruthy(data) == data # "undefined"

\* response && Array.isArray(response.data)
ListingValid(data) == data = "array"

validateOpenAIKey ==
  /\ vpc = "idle"
  /\ IF vKey = <<>> \/ ~StartsWith(vKey, KeyPrefix)
     THEN vpc' = "returned" /\ vResult' = FALSE /\ UNCHANGED listCalls
     ELSE vpc' = "listing" /\ listCalls' = listCalls + 1 /\ UNCHANGED vResult
  /\ UNCHANGED <<vKey, vListing, beyondValidate>>

\* how validateOpenAIKey ends when the listing call fails: the catch returns false
ListingFailure == [pc |-> "returned", result |-> FALSE]

ListingReturns(data) ==
  /\ vpc = "listing"
  /\ vpc' = "returned" /\ vResult' = ListingValid(data)
  /\ vListing' = data
  /\ UNCHANGED <<vKey, listCalls, beyondValidate>>
ListingFails ==
  /\ vpc = "listing"
  /\ vpc' = ListingFailure.pc /\ vResult' = ListingFailure.result
  /\ vListing' = "failed"
  /\ UNCHANGED <<vKey, listCalls, beyondValidate>>

\* ---------------------------------------------------------------------------
\* Inputs and specifications
\* ---------------------------------------------------------------------------
RECURSIVE SeqsUpTo(_, _)
\* the sequences over S of length at most n
SeqsUpTo(S, n) ==
  IF n = 0 THEN {<<>>}
  ELSE LET shorter == SeqsUpTo(S, n - 1)
       IN shorter \cup {Append(q, x) : q \in {r \in shorter : Len(r) = n - 1}, x \in S}

MissingKey == <<>>
PlainKey == <<"a", "b", "c", "1", "2", "3">>
SecretKey == <<"s", "k", "-", "a">>

BatchIdle ==
  /\ texts = <<>> /\ apiKey = <<>> /\ pc = "off" /\ loopI = 0 /\ results = <<>>
  /\ pipe = <<>> /\ calls = {} /\ issued = <<>> /\ pauses = <<>> /\ started = <<>>
CombineIdle == embeddingResult = Null /\ completionResult = Null /\ combined = Null
ValidateIdle == vKey = <<>> /\ vpc = "off" /\ vResult = FALSE /\ vListing = "none" /\ listCalls = 0
TextIdle == rawText = <<>> /\ processed = Null /\ statsOut = Null
UiIdle ==
  /\ uiApiKey = <<>> /\ apiKeyValid = FALSE /\ apiKeyValidating = FALSE /\ debounce = Null
  /\ validations = <<>> /\ validated = {} /\ isAnalyzing = FALSE /\ pipelineKeys = {}
  /\ analysisProgress = 0 /\ progressTimers = {} /\ progressInterval = 0

\* the batch orchestrator on every list of at most MaxTexts texts that may be
\* long, and on every list of at most MaxShortTexts short or blank texts
MixedTexts == {"  ", "I a.", "w100"}
ShortTexts == {"", "I a."}
BatchInputs == SeqsUpTo(MixedTexts, MaxTexts) \cup SeqsUpTo(ShortTexts, MaxShortTexts)
BatchKeys == {MissingKey, SecretKey}
BatchVectors == {"ones"}

Init ==
  /\ texts \in BatchInputs
  /\ apiKey \in BatchKeys
  /\ pc = "idle" /\ loopI = 0 /\ results = <<>> /\ calls = {} /\ pauses = <<>>
  /\ pipe = [s \in 1..Len(texts) |-> Unstarted]
  /\ started = [s \in 1..Len(texts) |-> 0]
  /\ issued = [s \in 1..Len(texts) |-> [k \in {"embedding", "completion"} |-> 0]]
  /\ CombineIdle /\ ValidateIdle /\ TextIdle /\ UiIdle

Next ==
  \/ analyzeBatchWithEnhancedOpenAI
  \/ TimerFires
  \/ \E s \in 1..Len(texts), v \in BatchVectors : EmbeddingReturns(s, v)
  \/ \E s \in 1..Len(texts) : EmbeddingFails(s)
  \/ \E s \in 1..Len(texts), content \in BatchContents : CompletionReturns(s, content)
  \/ \E s \in 1..Len(texts) : CompletionFails(s)

Spec == Init /\ [][Next]_vars

\* one call of analyzeTextWithEnhancedOpenAI from outside
SingleKeys == {MissingKey, PlainKey, SecretKey}

InitSingle ==
  /\ texts \in {<<t>> : t \in TextNames}
  /\ apiKey \in SingleKeys
  /\ pc = "direct" /\ loopI = 0 /\ results = <<>> /\ calls = {} /\ pauses = <<>>
  /\ pipe = <<Unstarted>>
  /\ started = <<0>>
  /\ issued = <<[k \in {"embedding", "completion"} |-> 0]>>
  /\ CombineIdle /\ ValidateIdle /\ TextIdle /\ UiIdle

NextSingle ==
  \/ analyzeTextWithEnhancedOpenAI
  \/ \E v \in VectorNames : EmbeddingReturns(1, v)
  \/ EmbeddingFails(1)
  \/ \E content \in SingleContents : CompletionReturns(1, content)
  \/ CompletionFails(1)

SpecSingle == InitSingle /\ [][NextSingle]_vars

\* combineAnalysisResults on every pair of scores within the documented range
Scores == 0..100
Combine ==
  /\ combined = Null
  /\ combined' = combineAnalysisResults(embeddingResult, completionResult)
  /\ UNCHANGED <<embeddingResult, completionResult, beyondCombine>>

InitCombine ==
  /\ \/ /\ embeddingResult \in [aiProbability : Scores, confidence : {70}, factors : {<<"embedding">>}]
        /\ completionResult \in [aiProbability : Scores, confidence : {90}, factors : {<<"tone">>}]
     \/ /\ embeddingResult \in [aiProbability : {40}, confidence : Scores, factors : {<<"embedding">>}]
        /\ completionResult \in [aiProbability : {80}, confidence : Scores, factors : {<<"tone">>}]
  /\ combined = Null
  /\ BatchIdle /\ ValidateIdle /\ TextIdle /\ UiIdle

SpecCombine == InitCombine /\ [][Combine]_vars

\* validateOpenAIKey on every credential of at most MaxKeyLen characters
KeyChars == {"s", "k", "-", "a"}
InitValidate ==
  /\ vKey \in SeqsUpTo(KeyChars, MaxKeyLen)
  /\ vpc = "idle" /\ vResult = FALSE /\ vListing = "none" /\ listCalls = 0
  /\ BatchIdle /\ CombineIdle /\ TextIdle /\ UiIdle

NextValidate ==
  \/ validateOpenAIKey
  \/ \E data \in ListingShapes : ListingReturns(data)
  \/ ListingFails

SpecValidate == InitValidate /\ [][NextValidate]_vars

\* both entry points under the assumption that every remote call issued
\* returns or fails in the end and that every pacing timer fires in the end
LiveTexts == {"", "I a.", "w100"}
LiveKeys == {MissingKey, SecretKey}
InitLive ==
  /\ \/ texts \in SeqsUpTo(LiveTexts, MaxLiveTexts) /\ pc = "idle"
     \/ texts \in {<<t>> : t \in LiveTexts} /\ pc = "direct"
  /\ apiKey \in LiveKeys
  /\ loopI = 0 /\ results = <<>> /\ calls = {} /\ pauses = <<>>
  /\ pipe = [s \in 1..Len(texts) |-> Unstarted]
  /\ started = [s \in 1..Len(texts) |-> 0]
  /\ issued = [s \in 1..Len(texts) |-> [k \in {"embedding", "completion"} |-> 0]]
  /\ CombineIdle /\ ValidateIdle /\ TextIdle /\ UiIdle

\* the embedding call, the completion call of the run on input s ends
EmbeddingEnds(s) == (\E v \in BatchVectors : EmbeddingReturns(s, v)) \/ EmbeddingFails(s)
CompletionEnds(s) == (\E content \in BatchContents : CompletionReturns(s, content)) \/ CompletionFails(s)

NextLive ==
  \/ analyzeBatchWithEnhancedOpenAI
  \/ analyzeTextWithEnhancedOpenAI
  \/ TimerFires
  \/ \E s \in 1..Len(texts) : EmbeddingEnds(s)
  \/ \E s \in 1..Len(texts) : CompletionEnds(s)

SpecLive ==
  /\ InitLive /\ [][NextLive]_vars
  /\ WF_vars(TimerFires)
  /\ \A s \in 1..MaxLiveTexts : WF_vars(EmbeddingEnds(s)) /\ WF_vars(CompletionEnds(s))

\* preprocessText and calculateEnhancedTextStats, both exported, on every text
\* made of at most MaxTokens of these pieces
TextTokens ==
  { <<"I", " ">>, <<" ", "a", ".">>, <<" ">>, <<"#">>,
    <<"h", "t", "t", "p", ":", "/", "/", "x">>, <<"m", "e", "@", "b", ".", "c", "o">> }
RECURSIVE Flatten(_)
Flatten(q) == IF q = <<>> THEN <<>> ELSE Head(q) \o Flatten(Tail(q))
RawTexts == {Flatten(q) : q \in SeqsUpTo(TextTokens, MaxTokens)}

Preprocess ==
  /\ processed = Null
  /\ processed' = [value |-> preprocessText(rawText)]
  /\ UNCHANGED <<rawText, statsOut, beyondText>>

Stats ==
  /\ statsOut = Null
  /\ statsOut' = calculateEnhancedTextStats(rawText)
  /\ UNCHANGED <<rawText, processed, beyondText>>

InitText ==
  /\ rawText \in RawTexts
  /\ processed = Null /\ statsOut = Null
  /\ BatchIdle /\ CombineIdle /\ ValidateIdle /\ UiIdle

NextText == Preprocess \/ Stats

SpecText == InitText /\ [][NextText]_vars

\* ---------------------------------------------------------------------------
\* The component AITextDetector: the key field, its debounced validation, the
\* Validate button and the analyze button. A closure reads the state of the
\* render that made it: the timer of the key effect validates the apiKey of
\* its own render, a click validates the apiKey on screen.
\* ---------------------------------------------------------------------------
OtherKey == <<"s", "k", "-", "b">>
ProgressStep == 10
ProgressCeiling == 90
UiKeys == {<<>>, <<" ">>, SecretKey, SecretKey \o <<" ">>, OtherKey}
\* how the model-listing call of a validation ends
ListingOutcomes == ListingShapes \cup {"failed"}

\* validateApiKey of a render whose apiKey is key, up to its await
validateApiKey(key) ==
  /\ Len(validations) < MaxValidations
  /\ Trim(key) # <<>>
  /\ apiKeyValidating' = TRUE
  /\ validations' = Append(validations, Trim(key))

\* onChange of the key field, the re-render and the key effect: the cleanup
\* clears the timer of the last render
EditKey(key) ==
  /\ key # uiApiKey
  /\ uiApiKey' = key
  /\ IF Trim(key) # <<>>
     THEN debounce' = [key |-> key] /\ UNCHANGED apiKeyValid
     ELSE debounce' = Null /\ apiKeyValid' = FALSE
  /\ UNCHANGED <<apiKeyValidating, validations, validated, isAnalyzing, pipelineKeys, progressVars, beyondUi>>

\* the 500 ms timer of the key effect fires
DebounceFires ==
  /\ debounce # Null
  /\ validateApiKey(debounce.key)
  /\ debounce' = Null
  /\ UNCHANGED <<uiApiKey, apiKeyValid, validated, isAnalyzing, pipelineKeys, progressVars, beyondUi>>

\* a click on Validate, enabled unless the key is blank or a validation runs
ClickValidate ==
  /\ Trim(uiApiKey) # <<>> /\ ~apiKeyValidating
  /\ validateApiKey(uiApiKey)
  /\ UNCHANGED <<uiApiKey, apiKeyValid, debounce, validated, isAnalyzing, pipelineKeys, progressVars, beyondUi>>

\* validateOpenAIKey of the i-th validation in flight returns, its listing
\* call having ended as data: setApiKeyValid(isValid), setApiKeyValidating(false)
ValidationReturns(i, data) ==
  /\ i \in 1..Len(validations)
  /\ LET isValid == StartsWith(validations[i], KeyPrefix) /\ data # "failed" /\ ListingValid(data)
     IN /\ apiKeyValid' = isValid
        /\ validated' = IF isValid THEN validated \cup {validations[i]} ELSE validated
  /\ apiKeyValidating' = FALSE
  /\ validations' = RemoveAt(validations, {i})
  /\ UNCHANGED <<uiApiKey, debounce, isAnalyzing, pipelineKeys, progressVars, beyondUi>>

\* a click on the analyze button, enabled when apiKeyValid and not analyzing
\* (the text is not blank): what analyzeText and analyzeBatch share up to
\* their await
AnalyzeClick ==
  /\ ~isAnalyzing /\ apiKeyValid
  /\ isAnalyzing' = TRUE
  /\ analysisProgress' = 0
  /\ pipelineKeys' = pipelineKeys \cup {uiApiKey}
  /\ UNCHANGED <<uiApiKey, apiKeyValid, apiKeyValidating, debounce, validations, validated, beyondUi>>

\* the click with batchMode off: analyzeText sets its interval before the await
analyzeText ==
  /\ AnalyzeClick
  /\ Cardinality(progressTimers) < MaxTimers
  /\ LET timer == CHOOSE id \in 1..MaxTimers :
                    id \notin progressTimers /\ \A other \in 1..(id - 1) : other \in progressTimers
     IN progressTimers' = progressTimers \cup {timer} /\ progressInterval' = timer

\* the click with batchMode on: analyzeBatch sets no interval
analyzeBatch ==
  /\ AnalyzeClick
  /\ progressInterval' = 0
  /\ UNCHANGED progressTimers

\* the interval id fires: setAnalysisProgress(prev => ...)
ProgressTick(id) ==
  /\ id \in progressTimers
  /\ IF analysisProgress >= ProgressCeiling
     THEN analysisProgress' = ProgressCeiling /\ progressTimers' = progressTimers \ {id}
     ELSE analysisProgress' = analysisProgress + ProgressStep /\ UNCHANGED progressTimers
  /\ UNCHANGED <<uiApiKey, apiKeyValid, apiKeyValidating, debounce, validations, validated,
                 isAnalyzing, pipelineKeys, progressInterval, beyondUi>>

\* the analysis ends: finally setIsAnalyzing(false), setAnalysisProgress(0)
AnalyzeEnds ==
  /\ isAnalyzing
  /\ isAnalyzing' = FALSE
  /\ analysisProgress' = 0
  /\ progressInterval' = 0
  /\ UNCHANGED <<uiApiKey, apiKeyValid, apiKeyValidating, debounce, validations, validated,
                 pipelineKeys, beyondUi>>

\* the awaited analysis resolves: clearInterval(progressInterval),
\* setAnalysisProgress(100), setResults, then the finally
AnalyzeSucceeds ==
  /\ AnalyzeEnds
  /\ progressTimers' = progressTimers \ {progressInterval}

\* the awaited analysis rejects: the catch, then the finally
AnalyzeFails ==
  /\ AnalyzeEnds
  /\ UNCHANGED progressTimers

InitUi == UiIdle /\ BatchIdle /\ CombineIdle /\ ValidateIdle /\ TextIdle

NextUi ==
  \/ \E key \in UiKeys : EditKey(key)
  \/ DebounceFires
  \/ ClickValidate
  \/ \E i \in 1..MaxValidations, data \in ListingOutcomes : ValidationReturns(i, data)
  \/ analyzeText
  \/ analyzeBatch
  \/ \E id \in 1..MaxTimers : ProgressTick(id)
  \/ AnalyzeSucceeds
  \/ AnalyzeFails

SpecUi == InitUi /\ [][NextUi]_vars

\* ---------------------------------------------------------------------------
\* Properties
\* ---------------------------------------------------------------------------
Slots == 1..Len(texts)
GroupOf(s) == (s - 1) \div BatchSize
Done(s) == ~NonBlank(texts[s]) \/ Settled(pipe[s])
NoCalls == [k \in {"embedding", "completion"} |-> 0]

\* C1: when the batch returns, the text fields of its results are exactly the
\* non-blank inputs, in input order, whatever order the analyses ended in.
BatchOrder ==
  pc = "returned" => [k \in 1..Len(results) |-> results[k].text] = SelectSeq(texts, NonBlank)

\* a returned batch of two groups with a blank input, a failed and an analysed item
BatchOrderWitness ==
  /\ pc = "returned" /\ Len(texts) > BatchSize
  /\ \E s \in Slots : ~NonBlank(texts[s])
  /\ \E k \in 1..Len(results) : "error" \in DOMAIN results[k]
  /\ \E k \in 1..Len(results) : "error" \notin DOMAIN results[k]

\* C2: the batch never fails; when it returns, every non-blank input has ended,
\* a failed one holds the sentinel with its error message in its slot and every
\* other one holds the outcome of its own analysis.
ItemIsolation ==
  /\ pc # "rejected"
  /\ pc = "returned" =>
       /\ Len(results) = Cardinality({s \in Slots : NonBlank(texts[s])})
       /\ \A s \in Slots : NonBlank(texts[s]) =>
            LET r == results[Cardinality({x \in 1..s : NonBlank(texts[x])})]
            IN /\ Settled(pipe[s])
               /\ pipe[s].phase = "rejected" =>
                    r = [text |-> texts[s], error |-> pipe[s].value, aiProbability |-> 50,
                         confidence |-> 10, interpretation |-> "Analysis failed"]
               /\ pipe[s].phase = "resolved" =>
                    /\ "error" \notin DOMAIN r
                    /\ r.text = texts[s]
                    /\ r.aiProbability = pipe[s].value.aiProbability
                    /\ r.confidence = pipe[s].value.confidence

\* a returned batch in which an item failed beside an analysed item of its
\* group, and an item of a later group was analysed
ItemIsolationWitness ==
  /\ pc = "returned"
  /\ \E s, s2, s3 \in Slots :
       /\ GroupOf(s) = GroupOf(s2) /\ GroupOf(s) < GroupOf(s3)
       /\ pipe[s].phase = "rejected" /\ pipe[s2].phase = "resolved" /\ pipe[s3].phase = "resolved"

\* C3: at most 3 remote calls are in flight at any moment.
InFlightBound == Cardinality(calls) <= 3

\* three calls in flight, one of them the completion call of a long text that
\* has its embedding already, another an embedding call
InFlightWitness ==
  /\ Cardinality(calls) = 3
  /\ \E c \in calls : c.kind = "completion" /\ pipe[c.slot].embeddingResult # Null
  /\ \E c \in calls : c.kind = "embedding"

\* C4: the inputs are taken in consecutive groups of 3; while the batch waits
\* for a group every non-blank input of it has been started, and no input of a
\* later group is started before every input of the earlier groups has ended.
GroupsSequential ==
  /\ loopI % BatchSize = 0
  /\ \A s, s2 \in Slots :
       GroupOf(s) < GroupOf(s2) /\ pipe[s2].phase # "unstarted" => Done(s)
  /\ pc = "waiting" =>
       \A s \in Slots :
         GroupOf(s) = loopI \div BatchSize /\ NonBlank(texts[s]) => pipe[s].phase # "unstarted"

\* the batch waits for its second group, a call of that group in flight
GroupsSequentialWitness ==
  pc = "waiting" /\ loopI = BatchSize /\ \E c \in calls : c.slot > BatchSize

\* C5: every pause is of 1000 ms; a pause is armed only after a group that is
\* not the last has ended and before the next one started; a returned batch over
\* n > 0 inputs has made ceil(n/3) - 1 pauses.
PauseDiscipline ==
  /\ \A k \in 1..Len(pauses) : pauses[k] = 1000
  /\ pc = "returned" /\ Len(texts) > 0 => Len(pauses) = (Len(texts) + 2) \div 3 - 1
  /\ pc = "pausing" =>
       /\ Len(pauses) = loopI \div 3 + 1
       /\ loopI + 3 < Len(texts)
       /\ \A s \in Slots : IF s <= loopI + 3 THEN Done(s) ELSE pipe[s].phase = "unstarted"
  /\ pc \in {"idle", "waiting"} => Len(pauses) = loopI \div 3

\* a returned batch of three groups
PauseDisciplineWitness == pc = "returned" /\ Len(texts) = 7 /\ Len(pauses) = 2

ValidationPassed == TextChars(texts[1]) # <<>> /\ apiKey # <<>>
\* the result was merged by combineAnalysisResults
Merged(p) ==
  /\ p.value.apiDetails.model = "hybrid-approach"
  /\ p.value.aiProbability = combineAnalysisResults(p.embeddingResult, p.completionResult).aiProbability
  /\ p.value.confidence = combineAnalysisResults(p.embeddingResult, p.completionResult).confidence
\* the result is the completion's own
CompletionAlone(p) ==
  /\ p.value.apiDetails.model = "gpt-4o"
  /\ p.value.aiProbability = p.completionResult.aiProbability
  /\ p.value.confidence = p.completionResult.confidence

\* C6 as stated: a run that ends on a text of fewer than 100 words has issued
\* the completion call alone, and one on a text of 100 words or more has
\* issued both the embedding and the completion call.
BothCallsIssued ==
  pc = "direct" /\ Settled(pipe[1]) /\ ValidationPassed =>
    IF textStats[texts[1]].words < 100
    THEN issued[1] = [embedding |-> 0, completion |-> 1]
    ELSE issued[1] = [embedding |-> 1, completion |-> 1]

\* C6 as amended: below 100 words the completion call alone is issued and a
\* result is the completion's own; from 100 words on the embedding call is
\* issued, the completion call is issued once the embedding analysis has
\* succeeded and not at all when it failed, and a result is the merge of both.
PathByLength ==
  pc = "direct" /\ Settled(pipe[1]) /\ ValidationPassed =>
    IF textStats[texts[1]].words < 100
    THEN /\ issued[1] = [embedding |-> 0, completion |-> 1]
         /\ pipe[1].phase = "resolved" => CompletionAlone(pipe[1])
    ELSE /\ issued[1].embedding = 1
         /\ issued[1].completion = (IF pipe[1].embeddingResult = Null THEN 0 ELSE 1)
         /\ pipe[1].phase = "resolved" => Merged(pipe[1])

\* a text of exactly 100 words analysed with both calls
PathByLengthWitness ==
  /\ pc = "direct" /\ texts = <<"w100">> /\ pipe[1].phase = "resolved"
  /\ issued[1] = [embedding |-> 1, completion |-> 1]

\* round-half-up of (3e + 7c)/10
HalfUp(e, c) == (3 * e + 7 * c + 5) \div 10

\* C7: combineAnalysisResults returns the weighted means 0.3*embedding +
\* 0.7*completion of aiProbability and of confidence, rounded half up.
CombineRoundsHalfUp ==
  combined # Null =>
    /\ combined.aiProbability = HalfUp(embeddingResult.aiProbability, completionResult.aiProbability)
    /\ combined.confidence = HalfUp(embeddingResult.confidence, completionResult.confidence)

\* C8: the aiProbability and the confidence of every result of
\* analyzeTextWithEnhancedOpenAI lie in [0,100].
ResultInRange ==
  pc = "direct" /\ pipe[1].phase = "resolved" =>
    /\ pipe[1].value.aiProbability \in 0..100
    /\ pipe[1].value.confidence \in 0..100

\* C9: a call with a missing text, a missing credential or a credential
\* without the prefix sk- fails with the validation error and issues no
\* remote call.
InvalidInputRejected ==
  /\ pc = "direct"
  /\ pipe[1].phase # "unstarted"
  /\ TextChars(texts[1]) = <<>> \/ apiKey = <<>> \/ ~StartsWith(apiKey, <<"s", "k", "-">>)
  => /\ pipe[1].phase = "rejected"
     /\ pipe[1].value = <<"Text and API key are required">>
     /\ issued[1] = NoCalls

\* C10: validateOpenAIKey never throws; a credential that is empty or lacks
\* the prefix sk- yields false and no remote call; any other yields exactly
\* one model-listing call, and true exactly when that call returned a listing
\* whose data is an array.
ValidatorContract ==
  /\ vpc \in {"off", "idle", "listing", "returned"}
  /\ vpc \in {"listing", "returned"} =>
       IF vKey = <<>> \/ ~StartsWith(vKey, <<"s", "k", "-">>)
       THEN vpc = "returned" /\ vResult = FALSE /\ listCalls = 0
       ELSE /\ listCalls = 1
            /\ vpc = "returned" => (vResult <=> vListing = "array")

\* a credential with the prefix found valid by a listing call
ValidatorContractWitness ==
  vpc = "returned" /\ vResult /\ listCalls = 1 /\ StartsWith(vKey, <<"s", "k", "-">>)

\* the fields of a RemoteScore
ScoreFields == {"aiProbability", "confidence", "factors", "likelySource", "reasoning"}

\* C11: whenever performCompletionAnalysis has returned a score within a
\* single-text analysis, the score holds every field of a RemoteScore: a
\* response that lacks one makes the scoring step fail.
ScoreComplete ==
  pc = "direct" /\ pipe[1].completionResult # Null =>
    ScoreFields \subseteq DOMAIN pipe[1].completionResult

\* C12: for every non-empty text given to calculateEnhancedTextStats, also one
\* with consecutive, leading or trailing spaces, the record returned has
\* sentences >= 1 and 0 <= lexicalDiversity <= 1 (lexicalDiversity is kept in
\* hundredths).
StatsInRange ==
  statsOut # Null /\ rawText # <<>> =>
    statsOut.sentences >= 1 /\ statsOut.lexicalDiversity \in 0..100

\* C13: when the text given to calculateEnhancedTextStats has no words (the
\* empty string, or spaces only) every numeric field of the record returned is
\* 0, and nothing was divided by zero (a division by zero shows as Infinity).
ZeroStats ==
  [words |-> 0, sentences |-> 0, avgWordsPerSentence |-> DblZero, longWords |-> 0,
   personalPronouns |-> 0, readabilityScore |-> Tenths(0), lexicalDiversity |-> 0]
NoWordsNoNumbers ==
  statsOut # Null /\ WordCount(rawText) = 0 => statsOut = ZeroStats

\* round(0.4*confidence + 0.2*min(100, 2*words) + 0.2*(100*lexicalDiversity)
\* + 0.2*min(100, 20*personalPronouns)) in exact arithmetic: the sum is an even
\* number of tenths, so it is never half way between two integers
ExactValidationScore(confidence, st) ==
  (4 * confidence + 2 * Min(100, 2 * st.words) + 2 * st.lexicalDiversity
     + 2 * Min(100, 20 * st.personalPronouns) + 5) \div 10

\* C14: every result that analyzeTextWithEnhancedOpenAI returns for a remote
\* confidence in 0..100 has validationScore = round(0.4*confidence +
\* 0.2*min(100, 2*words) + 0.2*(100*lexicalDiversity) + 0.2*min(100,
\* 20*personalPronouns)), computed from its own textStats, and that is in 0..100.
ValidationScoreInRange ==
  \A s \in Slots :
    pipe[s].phase = "resolved" /\ pipe[s].completionResult.confidence \in 0..100 =>
      /\ pipe[s].value.validationScore
           = ExactValidationScore(pipe[s].value.confidence, pipe[s].value.textStats)
      /\ pipe[s].value.validationScore \in 0..100
\* the largest sum there is, 100.4, is rounded to 100
ValidationScoreWitness ==
  /\ pipe[1].phase = "resolved" /\ pipe[1].value.confidence = 100
  /\ pipe[1].value.textStats.words = 50 /\ pipe[1].value.textStats.lexicalDiversity = 102
  /\ pipe[1].value.textStats.personalPronouns = 5
  /\ pipe[1].value.validationScore = 100

\* C15: the verdict sentence of getEnhancedInterpretation is the human-leaning
\* one below 30, the mixed one from 30 to 60 inclusive and the AI-leaning one
\* strictly above 60; at aiProbability = 60 it is the mixed one.
VerdictByThreshold ==
  \A s \in Slots :
    pipe[s].phase = "resolved" =>
      LET aiProbability == pipe[s].value.aiProbability
      IN pipe[s].value.interpretation[2] =
           IF aiProbability < 30
           THEN "This text is likely human-written with natural speech patterns."
           ELSE IF aiProbability <= 60
           THEN "This text has mixed indicators that could suggest either human or AI authorship."
           ELSE "This text shows patterns consistent with AI-generated content."

ContainsUrl(s) == \E i \in 1..Len(s) : UrlAt(s, i)
ContainsEmail(s) == FirstEmail(s, 1)[1] # 0
\* C16: the output of preprocessText contains no URL and no e-mail address,
\* neither starts nor ends with whitespace and has no run of two or more
\* whitespace characters, wherever a URL or an address stood in the input.
PreprocessClean ==
  processed # Null =>
    /\ ~ContainsUrl(processed.value) /\ ~ContainsEmail(processed.value)
    /\ Trim(processed.value) = processed.value
    /\ CollapseWhitespace(processed.value) = processed.value

\* C17: if every remote call issued returns or fails in the end and every
\* pacing timer fires in the end, every call of analyzeBatchWithEnhancedOpenAI
\* returns its results in the end, and every call of
\* analyzeTextWithEnhancedOpenAI returns a result or fails in the end.
AnalysisTerminates ==
  /\ (pc \notin {"idle", "direct"}) ~> (pc = "returned")
  /\ (pc = "direct" /\ pipe[1].phase # "unstarted") ~> (pc = "direct" /\ Settled(pipe[1]))
\* a batch of MaxLiveTexts texts has returned after a pause and two remote calls on one input
AnalysisTerminatesWitness ==
  /\ pc = "returned" /\ Len(texts) = MaxLiveTexts /\ pauses # <<>>
  /\ \E s \in Slots : issued[s].embedding = 1 /\ issued[s].completion = 1

\* C18: there are no retries. In a run of analyzeBatchWithEnhancedOpenAI the
\* single-text pipeline is started once for each non-blank input (exactly once
\* by the time the batch returns) and never for a blank one; a pipeline run
\* issues the embedding call and the completion call at most once each, also
\* after a failure; a run that has ended, failed or not, is never touched again.
NoRetries ==
  /\ [](\A s \in Slots :
          /\ started[s] <= 1
          /\ ~NonBlank(texts[s]) => started[s] = 0
          /\ pc = "returned" /\ NonBlank(texts[s]) => started[s] = 1
          /\ issued[s].embedding <= 1 /\ issued[s].completion <= 1)
  /\ [][\A s \in Slots :
          Settled(pipe[s]) => pipe'[s] = pipe[s] /\ started'[s] = started[s] /\ issued'[s] = issued[s]]_vars
\* a batch has returned after a pause; one run failed at its embedding call and
\* issued nothing more, one input was blank
NoRetriesWitness ==
  /\ pc = "returned" /\ pauses # <<>>
  /\ \E s \in Slots : pipe[s].phase = "rejected" /\ issued[s].embedding = 1 /\ issued[s].completion = 0
  /\ \E s \in Slots : ~NonBlank(texts[s]) /\ started[s] = 0

\* C19: performEmbeddingAnalysis returns aiProbability 50 and likelySource
\* "human" whatever embedding the remote call returned, so the aiProbability
\* of a hybrid result is round(15 + 0.7 * completion.aiProbability).
EmbeddingIgnored ==
  \A s \in Slots :
    pipe[s].embeddingResult # Null =>
      /\ pipe[s].embeddingResult.aiProbability = 50
      /\ pipe[s].embeddingResult.likelySource = "human"
      /\ pipe[s].phase = "resolved" =>
           pipe[s].value.aiProbability = (150 + 7 * pipe[s].completionResult.aiProbability + 5) \div 10
\* a hybrid result: the completion said 80, the result says 71
EmbeddingIgnoredWitness ==
  /\ pipe[1].phase = "resolved" /\ pipe[1].embeddingResult # Null
  /\ pipe[1].completionResult.aiProbability = 80 /\ pipe[1].value.aiProbability = 71

\* C20: whenever apiKeyValid is true, the apiKey on screen, trimmed, is a key
\* for which validateOpenAIKey returned true; so every key that analyzeText or
\* analyzeBatch passes to the pipeline is a validated one.
ValidMeansValidated ==
  /\ apiKeyValid => Trim(uiApiKey) \in validated
  /\ \A key \in pipelineKeys : Trim(key) \in validated

\* C21: once analyzeText has finished, by success or by failure, isAnalyzing
\* is false, the interval it set is cleared and analysisProgress is 0 and
\* stays 0 until the next analysis starts (no interval is left to change it);
\* while an analysis runs, no interval of an earlier one is alive.
ProgressSettled ==
  /\ ~isAnalyzing => analysisProgress = 0 /\ progressTimers = {}
  /\ isAnalyzing => progressTimers \subseteq {progressInterval}

====
